---------------------------- MODULE Spec2Model ----------------------------
(***************************************************************************)
(* Model of the asynchronous same-domain crawler                           *)
(* (src/application/async_crawler.py).                                     *)
(*                                                                         *)
(* Strings that hold URLs are modelled by their RFC 3986 components, the   *)
(* way urllib.parse.urlsplit sees them: scheme, netloc, path, query and    *)
(* fragment.                                                               *)
(* A path is the sequence of its segments as given by path.split("/"), so  *)
(* ""  is <<"">>, "/page1" is <<"", "page1">> and "/dir/" is               *)
(* <<"", "dir", "">>.  An absent component is the empty string.            *)
(*                                                                         *)
(* The event loop of asyncio is cooperative: code between two awaits runs  *)
(* without interruption.  The scheduler loop of crawl_domain_async holds   *)
(* the loop until it reaches asyncio.sleep(0.1); processing tasks advance  *)
(* only while the scheduler is suspended in that sleep.                    *)
(***************************************************************************)
EXTENDS Integers, Sequences, FiniteSets, Bags, TLC

(***************************************************************************)
(* Bounds of the model.                                                    *)
(***************************************************************************)
MaxConcurrency == 2

(***************************************************************************)
(* URL strings.                                                            *)
(***************************************************************************)
StrQ(scheme, netloc, path, query, fragment) ==
    [scheme |-> scheme, netloc |-> netloc, path |-> path, query |-> query,
     fragment |-> fragment]

\* A string without a query.
Str(scheme, netloc, path, fragment) == StrQ(scheme, netloc, path, "", fragment)

\* The empty string "".
EmptyStr == Str("", "", <<"">>, "")

\* Python's None, as returned by _normalize_url for an invalid URL.
None == Str("None", "", <<>>, "")

\* The outcome of a call that raises ValueError.
ValueError == Str("ValueError", "", <<>>, "")

\* A netloc with "[" and no "]": urlsplit raises ValueError("Invalid IPv6 URL").
BadNetloc == "[bad"

\* urlsplit(url) raises.
urlsplit_raises(url) == url.netloc = BadNetloc

\* The authority of a string that holds "//" followed by no authority, as in
\* "http:///x": the string begins with "http://" and its netloc is "".
EmptyAuthority == "//"

\* urlsplit(url).netloc
urlsplit_netloc(url) == IF url.netloc = EmptyAuthority THEN "" ELSE url.netloc

\* url.startswith(("mailto:", "javascript:", "tel:", "#"))
startswith_special(url) ==
    \/ url.scheme \in {"mailto", "javascript", "tel"}
    \/ /\ url.scheme = "" /\ url.netloc = "" /\ url.path = <<"">>
       /\ url.query = "" /\ url.fragment # ""

\* url.startswith(("http://", "https://"))
startswith_http(url) ==
    url.scheme \in {"http", "https"} /\ url.netloc # ""

\* urllib.parse.uses_relative and uses_netloc, restricted to the schemes of the model.
uses_relative == {"", "http", "https", "ftp"}

uses_netloc == {"", "http", "https", "ftp"}

\* The loop of urljoin over the merged segments: ".." pops, "." is skipped.
RECURSIVE resolve_segments(_, _)
resolve_segments(segments, resolved_path) ==
    IF segments = <<>> THEN resolved_path
    ELSE LET seg == Head(segments) IN
         resolve_segments(
             Tail(segments),
             IF seg = ".."
                THEN (IF resolved_path = <<>> THEN <<>>
                      ELSE SubSeq(resolved_path, 1, Len(resolved_path) - 1))
             ELSE IF seg = "." THEN resolved_path
             ELSE Append(resolved_path, seg))

\* filter(None, segments[1:-1]): the empty segments strictly inside are dropped.
filter_inner(segments) ==
    IF Len(segments) <= 2 THEN segments
    ELSE <<segments[1]>>
         \o SelectSeq(SubSeq(segments, 2, Len(segments) - 1), LAMBDA s : s # "")
         \o <<segments[Len(segments)]>>

\* urllib.parse.urlunsplit: with an authority, or a scheme that uses one, the
\* string gets "//" and a path that does not begin with "/" gets one.
urlunsplit(scheme, netloc, path, query, fragment) ==
    IF netloc # "" \/ (scheme # "" /\ scheme \in uses_netloc)
        THEN StrQ(scheme,
                  IF netloc = "" THEN EmptyAuthority ELSE netloc,
                  IF path # <<"">> /\ path[1] # "" THEN <<"">> \o path ELSE path,
                  query, fragment)
        ELSE StrQ(scheme, netloc, path, query, fragment)

\* urllib.parse.urljoin(base, url); both strings are split first.
urljoin(base, url) ==
    IF base = EmptyStr THEN url
    ELSE IF url = EmptyStr THEN base
    ELSE IF urlsplit_raises(base) \/ urlsplit_raises(url) THEN ValueError
    ELSE
    LET scheme == IF url.scheme = "" THEN base.scheme ELSE url.scheme
        base_parts == IF base.path[Len(base.path)] # ""
                         THEN SubSeq(base.path, 1, Len(base.path) - 1)
                         ELSE base.path
    IN  IF scheme # base.scheme \/ scheme \notin uses_relative THEN url
        ELSE IF scheme \in uses_netloc /\ urlsplit_netloc(url) # ""
            THEN urlunsplit(scheme, urlsplit_netloc(url), url.path, url.query,
                            url.fragment)
        ELSE IF url.path = <<"">>
            THEN urlunsplit(scheme, urlsplit_netloc(base), base.path,
                            IF url.query = "" THEN base.query ELSE url.query,
                            url.fragment)
        ELSE CHOOSE joined \in
                 {urlunsplit(scheme, urlsplit_netloc(base),
                             IF resolved_path \in {<<>>, <<"">>} THEN <<"", "">>
                             ELSE resolved_path,
                             url.query, url.fragment) :
                  resolved_path \in
                      {IF segments[Len(segments)] \in {".", ".."}
                          THEN Append(resolve_segments(segments, <<>>), "")
                          ELSE resolve_segments(segments, <<>>) :
                       segments \in
                           {IF url.path[1] = "" /\ Len(url.path) > 1
                               THEN url.path
                               ELSE filter_inner(base_parts \o url.path)}}} : TRUE

\* urllib.parse.urldefrag(url)[0]: the string is split only when it holds "#".
urldefrag_at_last_hash(url) ==
    IF url.fragment = "" THEN url
    ELSE IF urlsplit_raises(url) THEN ValueError
    ELSE urlunsplit(url.scheme, urlsplit_netloc(url), url.path, url.query,
                    IF url.fragment = "a#b" THEN "a" ELSE "")

urldefrag_at_query(url) ==
    IF url.fragment = "" THEN url
    ELSE IF urlsplit_raises(url) THEN ValueError
    ELSE urlunsplit(url.scheme, urlsplit_netloc(url), url.path, "", "")

urldefrag(url) ==
    IF url.fragment = "" THEN url
    ELSE IF urlsplit_raises(url) THEN ValueError
    ELSE urlunsplit(url.scheme, urlsplit_netloc(url), url.path, url.query, "")

\* CrawlerConfig.is_valid_url: url.startswith(("http://", "https://"))
is_valid_url(url) ==
    url.scheme \in {"http", "https"} /\ url.netloc # ""

\* AsyncWebCrawler._normalize_url(url, base_url)
normalize_url(url, base_url) ==
    IF url = EmptyStr THEN None
    ELSE IF startswith_special(url) THEN None
    ELSE CHOOSE normalized \in
             {IF defragged = ValueError THEN ValueError
              ELSE IF ~is_valid_url(defragged) THEN None
              ELSE defragged :
              defragged \in
                  {IF joined = ValueError THEN ValueError ELSE urldefrag(joined) :
                   joined \in
                       {IF base_url # EmptyStr /\ base_url # None /\ ~startswith_http(url)
                           THEN urljoin(base_url, url) ELSE url}}} : TRUE

\* urlparse(url).netloc == urlparse(self.config.url).netloc
same_netloc_and_scheme(url, seed) ==
    urlsplit_netloc(url) = urlsplit_netloc(seed) /\ url.scheme = seed.scheme

same_netloc(url, seed) == urlsplit_netloc(url) = urlsplit_netloc(seed)

\* AsyncWebCrawler.is_same_domain(url), for a crawler whose config.url is
\* seed: "True", "False", or "ValueError" when the call raises.
is_same_domain(url, seed) ==
    IF url = EmptyStr \/ url = None THEN "False"
    ELSE CHOOSE is_same \in
             {IF normalized = ValueError THEN "ValueError"
              ELSE IF normalized = None THEN "False"
              ELSE IF urlsplit_raises(normalized) \/ urlsplit_raises(seed) THEN "ValueError"
              ELSE IF same_netloc(normalized, seed) THEN "True"
              ELSE "False" :
              normalized \in {normalize_url(url, seed)}} : TRUE

(***************************************************************************)
(* Markup: the sequence of its elements.  The empty sequence is the empty  *)
(* string; an element is an anchor with or without an href, or other text. *)
(***************************************************************************)
Anchor(href) == [tag |-> "a", has_href |-> TRUE, href |-> href]

BareAnchor == [tag |-> "a", has_href |-> FALSE, href |-> EmptyStr]

Text == [tag |-> "p", has_href |-> FALSE, href |-> EmptyStr]

\* The loop of get_same_domain_links over the anchors, in document order,
\* inside try / except Exception: a call that raises ends the loop and the
\* links found so far are returned.
RECURSIVE links_loop(_, _, _, _)
links_loop(anchors, base, seed, links) ==
    IF anchors = << >> THEN links
    ELSE CHOOSE found \in
             {IF normalized_url = ValueError THEN links
              ELSE IF normalized_url = None \/ normalized_url = EmptyStr
                  THEN links_loop(Tail(anchors), base, seed, links)
              ELSE CHOOSE added \in
                       {IF same = "ValueError" THEN links
                        ELSE links_loop(Tail(anchors), base, seed,
                                        IF same = "True" THEN links \cup {normalized_url}
                                        ELSE links) :
                        same \in {is_same_domain(normalized_url, seed)}} : TRUE :
              normalized_url \in {normalize_url(Head(anchors).href, base)}} : TRUE

\* soup.find_all("a", href=True), in document order
href_anchor_seq(html) == SelectSeq(html, LAMBDA e : e.tag = "a" /\ e.has_href)

\* AsyncWebCrawler.get_same_domain_links(html, base_url) for non-empty html
get_same_domain_links_first_only(html, base_url, seed) ==
    LET base == IF base_url = EmptyStr THEN seed ELSE base_url
        found == href_anchor_seq(html)
    IN  links_loop(IF found = << >> THEN << >> ELSE << Head(found) >>, base, seed, {})

get_same_domain_links(html, base_url, seed) ==
    LET base == IF base_url = EmptyStr THEN seed ELSE base_url
    IN  links_loop(href_anchor_seq(html), base, seed, {})


(***************************************************************************)
(* The web the crawl runs against: for each scenario the seed given to the *)
(* crawler and the pages the server holds.  A URL without a page answers   *)
(* 404; a URL with a page may still answer 500, time out or fail in        *)
(* transport on any attempt.                                               *)
(***************************************************************************)
Root == Str("https", "example.com", <<"">>, "")

Page(name) == Str("https", "example.com", <<"", name>>, "")

Rel(path) == Str("", "", path, "")

\* Seed page with two same-domain links, a cross-domain link, a mailto link
\* and a bare fragment; page2 links back to the seed.
SiteBasic ==
    (Root :> << Text,
                Anchor(Page("page1")),
                Anchor(Page("page2")),
                Anchor(Str("https", "other.com", <<"", "x">>, "")),
                Anchor(Str("mailto", "", <<"a@b.com">>, "")),
                Anchor(Str("", "", <<"">>, "frag")) >>)
    @@ (Page("page1") :> << Text >>)
    @@ (Page("page2") :> << Text, Anchor(Root), Anchor(Page("page2")) >>)

\* Relative links; pages a and b both link to c; /dead has no page.
SiteDiamond ==
    (Root :> << Anchor(Rel(<<"", "a">>)), Anchor(Rel(<<"b">>)) >>)
    @@ (Page("a") :> << Anchor(Str("", "", <<"", "c">>, "top")),
                        Anchor(Rel(<<"", "dead">>)) >>)
    @@ (Page("b") :> << Anchor(Rel(<<"c">>)), BareAnchor >>)
    @@ (Page("c") :> << Text, Anchor(Root), Anchor(Rel(<<"", "a">>)) >>)

\* A page served with status 200 and an empty body, an http link to the
\* same host, and a subdomain.
SiteEmptyBody ==
    (Root :> << Anchor(Str("http", "example.com", <<"", "a">>, "")),
                Anchor(Rel(<<"", "e">>)),
                Anchor(Str("https", "sub.example.com", <<"", "">>, "")) >>)
    @@ (Str("http", "example.com", <<"", "a">>, "") :> << Text, Anchor(Rel(<<"e">>)) >>)
    @@ (Page("e") :> << >>)

\* The seed links to five pages without links of their own.
SiteFan ==
    (Root :> << Anchor(Page("1")), Anchor(Page("2")), Anchor(Page("3")),
                Anchor(Page("4")), Anchor(Page("5")) >>)
    @@ (Page("1") :> << Text >>)
    @@ (Page("2") :> << Text >>)
    @@ (Page("3") :> << Text >>)
    @@ (Page("4") :> << Text >>)
    @@ (Page("5") :> << Text >>)

\* Every link is relative and every linked page exists:
\* "" -> /dir/index.html -> /dir/page -> /top -> back.
SiteChain ==
    (Root :> << Text, Anchor(Rel(<<"dir", "index.html">>)) >>)
    @@ (Str("https", "example.com", <<"", "dir", "index.html">>, "")
            :> << Anchor(Str("", "", <<"page">>, "section")) >>)
    @@ (Str("https", "example.com", <<"", "dir", "page">>, "")
            :> << Anchor(Rel(<<"..", "top">>)), Anchor(Rel(<<".", "index.html">>)) >>)
    @@ (Page("top")
            :> << Anchor(Root), Anchor(Str("", "", <<"dir", "page">>, "x")) >>)

Sites == {SiteBasic, SiteDiamond, SiteEmptyBody, SiteFan, SiteChain}

\* A seed that passes validate_url and carries a fragment,
\* https://example.com/#top, and the site it is crawled on: the page at
\* https://example.com/ links to itself and to a bare fragment.
SeedWithFragment == Str("https", "example.com", <<"", "">>, "top")

SiteSlash ==
    (Str("https", "example.com", <<"", "">>, "")
        :> << Text, Anchor(Rel(<<"", "">>)), Anchor(Str("", "", <<"">>, "top")) >>)

\* The crawls of the model: the seed handed to AsyncWebCrawler and the site.
Crawls == {<< Root, s >> : s \in Sites} \cup {<< SeedWithFragment, SiteSlash >>}

\* The values max_concurrency takes.
ConcurrencyValues == 0..MaxConcurrency

\* config.delay_min and config.delay_max as run_crawler leaves them (the
\* defaults 0.5 s and 2.0 s), in units of half a second.
delay_min == 1

delay_max == 4

\* random.uniform(a, b): any value between a and b.
uniform_from_zero(a, b) == 0 .. b

uniform(a, b) == a .. b

\* A callback slot: empty, or holding a function of the caller that returns,
\* or one that raises an Exception.
CallbackSlots == {"None", "returns", "raises"}

(***************************************************************************)
(* State.                                                                  *)
(***************************************************************************)
VARIABLES
    url,              \* config.url, the seed
    site,             \* the pages the server holds
    max_concurrency,  \* config.max_concurrency
    link_callback,    \* config.link_callback
    page_callback,    \* self.page_callback and config.page_callback: the constructor
                      \* and set_page_callback give both the same value
    pc,               \* where crawl_domain_async is
    session,          \* the aiohttp.ClientSession: "none", "open", "closed"
    to_visit,         \* crawl_state["to_visit"]
    in_progress,      \* crawl_state["in_progress"]
    visited,          \* crawl_state["visited"]
    tasks,            \* bag of running process_page tasks, [url, at]
    result,           \* the set crawl_domain_async returned
    link_calls,       \* bag of the URLs link_callback was called with
    page_calls,       \* bag of the (url, links) page_callback was called with
    requests,         \* bag of the URLs session.get was called with
    launched,         \* bag of the URLs a process_page task was created for
    absent,           \* bag of the URLs process_page found no HTML content for
    raced,            \* [link, by, other]: link was admitted by the task of "by" while
                      \* the task of "other", whose page holds link too, was running
    events,           \* what the last process_page that had HTML content did, in order
    sleeps,           \* bag of the URLs whose task called asyncio.sleep(delay)
    sleeps_in_range,  \* every delay slept so far was in [delay_min, delay_max]
    call_args,        \* the arguments of a call made from outside the crawl
    call_name,        \* the function that was called with them, "none" before
    call_result,      \* what the call returned
    verbose,          \* config.verbose
    monitor_task,     \* the task of _print_active_tasks_periodically: where it is
                      \* and the in_progress it logged last
    output_file       \* the file at the output path: whether it exists, its
                      \* extension and its content

vars == << url, site, max_concurrency, link_callback, page_callback, pc, session,
           to_visit, in_progress, visited, tasks, result,
           link_calls, page_calls, requests, launched, absent, raced, events,
           sleeps, sleeps_in_range, call_args, call_name, call_result,
           verbose, monitor_task, output_file >>

config == << url, site, max_concurrency, link_callback, page_callback, verbose >>

observed == << link_calls, page_calls, requests, launched, absent, raced, events,
              sleeps, sleeps_in_range >>

from_outside == << call_args, call_name, call_result, output_file >>

outside == << call_args, call_name, call_result, output_file, monitor_task >>

\* monitor_task = None: no monitor task was created.
NoMonitor == [at |-> "None", active |-> {}]

\* html returned for a failed fetch (Python's None).
NoneHtml == << [tag |-> "None", has_href |-> FALSE, href |-> EmptyStr] >>

\* "not html": None or the empty string.
not_html(html) == html = NoneHtml \/ html = << >>

\* The resource session.get(u) asks the server for: the fragment is not sent.
requested(u) == urldefrag(u)

\* What the server may answer to a request for u.
Responses(u) ==
    IF requested(u) \in DOMAIN site
       THEN {[kind |-> "response", status |-> 200, text |-> site[requested(u)]],
             [kind |-> "response", status |-> 500, text |-> << Text >>],
             [kind |-> "timeout", status |-> 0, text |-> << >>],
             [kind |-> "error", status |-> 0, text |-> << >>]}
       ELSE {[kind |-> "response", status |-> 404, text |-> << Text >>],
             [kind |-> "timeout", status |-> 0, text |-> << >>],
             [kind |-> "error", status |-> 0, text |-> << >>]}

\* AsyncWebCrawler._fetch_with_retry, from the response on: (url, html) or (url, None)
fetch_with_retry_any_status(u, response) ==
    IF session # "open" THEN << u, NoneHtml >>
    ELSE IF response.kind = "response"
        THEN << u, response.text >>
    ELSE << u, NoneHtml >>

fetch_with_retry(u, response) ==
    IF session # "open" THEN << u, NoneHtml >>
    ELSE IF response.kind = "response" /\ response.status = 200
        THEN << u, response.text >>
    ELSE << u, NoneHtml >>

\* AsyncWebCrawler.fetch_page_async
fetch_page_async(u, response) == fetch_with_retry(u, response)

\* The links of the page the server holds at u, as process_page extracts them.
links_of(u) ==
    IF requested(u) \in DOMAIN site /\ ~not_html(site[requested(u)])
       THEN get_same_domain_links(site[requested(u)], u, url) ELSE {}

\* The crawler after its construction, before crawl_domain is called.
Constructed ==
    /\ pc = "init"
    /\ session = "none"
    /\ to_visit = {}
    /\ in_progress = {}
    /\ visited = {}
    /\ tasks = EmptyBag
    /\ result = {}
    /\ link_calls = EmptyBag
    /\ page_calls = EmptyBag
    /\ requests = EmptyBag
    /\ launched = EmptyBag
    /\ absent = EmptyBag
    /\ raced = {}
    /\ events = << >>
    /\ sleeps = EmptyBag
    /\ sleeps_in_range = TRUE
    /\ monitor_task = NoMonitor

\* No file at the output path.
NoFile == [exists |-> FALSE, extension |-> ".txt", content |-> << >>]

\* No call from outside the crawl.
NoCall ==
    /\ output_file = NoFile
    /\ call_args = << >>
    /\ call_name = "none"
    /\ call_result = None

Init ==
    /\ \E crawl \in Crawls : url = crawl[1] /\ site = crawl[2]
    /\ max_concurrency \in ConcurrencyValues
    /\ link_callback \in CallbackSlots
    /\ page_callback \in CallbackSlots
    /\ verbose = FALSE
    /\ Constructed
    /\ NoCall

(***************************************************************************)
(* crawl_domain_async: the scheduler.                                      *)
(***************************************************************************)
\* The session inside "async with aiohttp.ClientSession() as session".
entered_session_unopened == "none"

entered_session == "open"

\* crawl_state is built with the seed pending and the session is entered.
CrawlStartFrontier ==
    /\ pc = "init"
    /\ to_visit' = {url}
    /\ visited' = {}
    /\ in_progress' = {}
    /\ session' = entered_session
    /\ pc' = "loop"
    /\ UNCHANGED << config, from_outside, tasks, result, observed >>

\* crawl_domain_async up to the loop: with verbose the monitor task is
\* created (513-518) before the session is entered.
CrawlStart ==
    /\ CrawlStartFrontier
    /\ monitor_task' = IF verbose THEN [at |-> "sleep", active |-> {}] ELSE monitor_task

\* while crawl_state["to_visit"] or crawl_state["in_progress"]
loop_condition_pending_only == to_visit # {}

loop_condition == to_visit # {} \/ in_progress # {}

\* crawl_state["to_visit"] and len(crawl_state["in_progress"]) < max_concurrency
can_admit_off_by_one ==
    to_visit # {} /\ Cardinality(in_progress) <= max_concurrency

can_admit_strict ==
    to_visit # {} /\ Cardinality(in_progress) + 1 < max_concurrency

can_admit ==
    to_visit # {} /\ Cardinality(in_progress) < max_concurrency

\* One iteration that admits: pop a URL, add it to in_progress, create its task.
Admit(u) ==
    /\ pc = "loop"
    /\ loop_condition
    /\ can_admit
    /\ u \in to_visit
    /\ to_visit' = to_visit \ {u}
    /\ in_progress' = in_progress \cup {u}
    /\ tasks' = tasks (+) SetToBag({[url |-> u, at |-> "start"]})
    /\ launched' = launched (+) SetToBag({u})
    /\ UNCHANGED << config, outside, pc, session, visited, result,
                    link_calls, page_calls, requests, absent, raced, events,
                    sleeps, sleeps_in_range >>

\* One iteration that cannot admit: await asyncio.sleep(0.1).
Idle ==
    /\ pc = "loop"
    /\ loop_condition
    /\ ~can_admit
    /\ pc' = "sleep"
    /\ UNCHANGED << config, outside, session, to_visit, in_progress, visited, tasks, result,
                    observed >>

\* The sleep of the scheduler ends; the loop condition is evaluated again.
Wake ==
    /\ pc = "sleep"
    /\ pc' = "loop"
    /\ UNCHANGED << config, outside, session, to_visit, in_progress, visited, tasks, result,
                    observed >>

\* The loop condition is false: the loop is left.
LoopExit ==
    /\ pc = "loop"
    /\ ~loop_condition
    /\ pc' = "drain"
    /\ UNCHANGED << config, outside, session, to_visit, in_progress, visited, tasks, result,
                    observed >>

\* "while in_progress: sleep" finds in_progress empty, the session context is
\* left and crawl_state["visited"] is returned.  While in_progress is not
\* empty the scheduler sleeps and checks again.
ReturnFrontier ==
    /\ pc = "drain"
    /\ IF in_progress = {}
          THEN /\ session' = "closed"
               /\ result' = visited
               /\ pc' = "done"
          ELSE UNCHANGED << session, result, pc >>
    /\ UNCHANGED << config, from_outside, to_visit, in_progress, visited, tasks, observed >>

\* With verbose the monitor task is cancelled and awaited (543-548) before
\* the session is left; cancelling a task that has ended changes nothing.
Return ==
    /\ ReturnFrontier
    /\ monitor_task' = IF in_progress = {} /\ verbose /\ monitor_task.at = "sleep"
                           THEN [monitor_task EXCEPT !.at = "cancelled"]
                           ELSE monitor_task

\* The scheduler is suspended in an await, so the tasks may run.
scheduler_suspended == pc = "sleep" \/ (pc = "drain" /\ in_progress # {})

(***************************************************************************)
(* process_page: one task per admitted URL.                                *)
(***************************************************************************)
\* link not in visited, not in to_visit and not in in_progress
is_new_link_ignoring_in_progress(link) ==
    link \notin visited /\ link \notin to_visit

is_new_link_ignoring_to_visit(link) ==
    link \notin visited /\ link \notin in_progress

is_new_link_ignoring_visited(link) ==
    link \notin to_visit /\ link \notin in_progress

is_new_link(link) ==
    link \notin visited /\ link \notin to_visit /\ link \notin in_progress

\* process_page up to the first await: _fetch_with_retry draws the delay and
\* sleeps.
Sleep(t) ==
    /\ scheduler_suspended
    /\ t \in BagToSet(tasks)
    /\ t.at = "start"
    /\ tasks' = (tasks (-) SetToBag({t})) (+) SetToBag({[url |-> t.url, at |-> "delay"]})
    /\ sleeps' = sleeps (+) SetToBag({t.url})
    /\ \E delay \in uniform(delay_min, delay_max) :
          sleeps_in_range' = (sleeps_in_range /\ delay_min <= delay /\ delay <= delay_max)
    /\ UNCHANGED << config, outside, pc, session, to_visit, in_progress, visited, result,
                    link_calls, page_calls, requests, launched, absent, raced, events >>

\* _fetch_with_retry up to the request: the politeness sleep is over and
\* session.get is called.
Request(t) ==
    /\ scheduler_suspended
    /\ t \in BagToSet(tasks)
    /\ t.at = "delay"
    /\ tasks' = (tasks (-) SetToBag({t})) (+) SetToBag({[url |-> t.url, at |-> "request"]})
    /\ requests' = requests (+) SetToBag({t.url})
    /\ UNCHANGED << config, outside, pc, session, to_visit, in_progress, visited, result,
                    link_calls, page_calls, launched, absent, raced, events,
                    sleeps, sleeps_in_range >>

\* A call of the function in a callback slot: "skipped" when the slot is
\* empty; the call sites wrap the call in try / except Exception, so an
\* Exception raised by the function is caught and logged there.
call_unguarded(slot) ==
    IF slot = "None" THEN "skipped"
    ELSE IF slot = "raises" THEN "propagated"
    ELSE "returned"

call_guarded(slot) ==
    IF slot = "None" THEN "skipped"
    ELSE IF slot = "raises" THEN "caught"
    ELSE "returned"

\* AsyncWebCrawler._process_page_callback: the outcomes of the calls it makes
\* (if self.page_callback ... elif self.config.page_callback ...).
process_page_callback_both_slots(self_slot, config_slot) ==
    (IF self_slot # "None" THEN << call_guarded(self_slot) >> ELSE << >>)
        \o (IF config_slot # "None" THEN << call_guarded(config_slot) >> ELSE << >>)

process_page_callback(self_slot, config_slot) ==
    IF self_slot # "None" THEN << call_guarded(self_slot) >>
    ELSE IF config_slot # "None" THEN << call_guarded(config_slot) >>
    ELSE << >>

\* The links of a page the link callback is called for: those the loop adds
\* to to_visit.
notified_links_all(links, new_links) == links

notified_links(links, new_links) == new_links

\* The statements of process_page after get_same_domain_links, in the order of
\* the code: the page callback (459), the loop over the links (461-482), the
\* move from in_progress to visited (485-486).
process_page_statements == << "page_callback", "add_links", "mark_visited" >>

\* The events of the loop over the links for n new links.
RECURSIVE add_events(_, _)
add_events(n, called) ==
    IF n = 0 THEN << >>
    ELSE (IF called THEN << "to_visit.add", "link_callback" >> ELSE << "to_visit.add" >>)
            \o add_events(n - 1, called)

\* One statement of process_page on the crawl state s, for the page u with
\* the given links; new_links are the links in none of the three sets and
\* first is the one the loop takes first.
run_statement(name, s, u, links, new_links, first) ==
    CASE name = "page_callback" ->
            LET outcomes == process_page_callback(page_callback, page_callback)
                call == [url |-> u, links |-> links]
            IN  [s EXCEPT !.page_calls =
                              IF outcomes = << >> THEN @ ELSE @ (+) (call :> Len(outcomes)),
                          !.events =
                              @ \o [i \in DOMAIN outcomes |-> "page_callback"],
                          !.raised =
                              \E i \in DOMAIN outcomes : outcomes[i] = "propagated"]
      [] name = "add_links" ->
            LET outcome == call_guarded(link_callback)
                raises == outcome = "propagated" /\ new_links # {}
                added == IF raises THEN {first} ELSE new_links
                notified == IF raises THEN {first} ELSE notified_links(links, new_links)
            IN  [s EXCEPT !.to_visit = @ \cup added,
                          !.link_calls =
                              IF outcome = "skipped" THEN @ ELSE @ (+) SetToBag(notified),
                          !.events =
                              @ \o add_events(Cardinality(added), outcome # "skipped"),
                          !.raised = raises]
      [] name = "mark_visited" ->
            [s EXCEPT !.in_progress = @ \ {u},
                      !.visited = @ \cup {u},
                      !.events = @ \o << "visited.add" >>]

\* The statements run in order until one raises.
RECURSIVE run_statements(_, _, _, _, _, _)
run_statements(statements, s, u, links, new_links, first) ==
    IF statements = << >> \/ s.raised THEN s
    ELSE run_statements(Tail(statements),
                        run_statement(Head(statements), s, u, links, new_links, first),
                        u, links, new_links, first)

\* "No HTML content" (445-448): the URL is taken out of in_progress and
\* the task returns.
no_html_content_keeps_slot(in_flight, u) == in_flight

no_html_content(in_flight, u) == in_flight \ {u}

\* except Exception (491-495): the URL is taken out of in_progress.
except_handler(s, u) ==
    IF s.raised THEN [s EXCEPT !.in_progress = @ \ {u}] ELSE s

\* The answer arrives and process_page runs to its end without another await.
\* No statement between the callback and the move to visited changes what
\* "link not in visited / to_visit / in_progress" reads, so new_links is
\* taken on the state the step starts in.
ProcessPage(t, response) ==
    /\ scheduler_suspended
    /\ t \in BagToSet(tasks)
    /\ t.at = "request"
    /\ response \in Responses(t.url)
    /\ tasks' = tasks (-) SetToBag({t})
    /\ \E fetched \in {fetch_page_async(t.url, response)} :
       \E u \in {fetched[1]} :
       \E html \in {fetched[2]} :
          IF not_html(html)
             THEN /\ in_progress' = no_html_content(in_progress, u)
                  /\ absent' = absent (+) SetToBag({u})
                  /\ UNCHANGED << to_visit, visited, link_calls, page_calls, raced,
                                  events >>
             ELSE \E links \in {get_same_domain_links(html, u, url)} :
                  \E new_links \in {{link \in links : is_new_link(link)}} :
                  \E first \in (IF new_links = {} THEN {u} ELSE new_links) :
                  \E s \in {[to_visit |-> to_visit, in_progress |-> in_progress,
                             visited |-> visited, link_calls |-> link_calls,
                             page_calls |-> page_calls, events |-> << >>,
                             raised |-> FALSE]} :
                  \E end \in {except_handler(
                                 run_statements(process_page_statements, s, u,
                                                links, new_links, first), u)} :
                      /\ to_visit' = end.to_visit
                      /\ in_progress' = end.in_progress
                      /\ visited' = end.visited
                      /\ link_calls' = end.link_calls
                      /\ page_calls' = end.page_calls
                      /\ events' = end.events
                      /\ raced' = raced \cup
                            {r \in [link : end.to_visit \ to_visit, by : {u},
                                    other : in_progress \ {u}] :
                                r.link \in links_of(r.other)}
                      /\ UNCHANGED absent
    /\ UNCHANGED << config, outside, pc, session, result, requests, launched,
                    sleeps, sleeps_in_range >>

Next ==
    \/ CrawlStart
    \/ \E u \in to_visit : Admit(u)
    \/ Idle
    \/ Wake
    \/ LoopExit
    \/ Return
    \/ \E t \in BagToSet(tasks) : Sleep(t)
    \/ \E t \in BagToSet(tasks) : Request(t)
    \/ \E t \in BagToSet(tasks) : \E response \in Responses(t.url) : ProcessPage(t, response)

Spec == Init /\ [][Next]_vars


(***************************************************************************)
(* Fairness of the event loop: the scheduler coroutine is resumed when its *)
(* sleep ends, and every task that is ready while the scheduler sleeps is  *)
(* run (timers fire and every request ends, by an answer or a timeout).    *)
(***************************************************************************)
Scheduler ==
    \/ CrawlStart
    \/ \E u \in to_visit : Admit(u)
    \/ Idle
    \/ Wake
    \/ LoopExit
    \/ Return

SleepSome == \E t \in BagToSet(tasks) : Sleep(t)

RequestSome == \E t \in BagToSet(tasks) : Request(t)

AnswerSome ==
    \E t \in BagToSet(tasks) : \E response \in Responses(t.url) : ProcessPage(t, response)

Fairness ==
    /\ WF_vars(Scheduler)
    /\ SF_vars(SleepSome)
    /\ SF_vars(RequestSome)
    /\ SF_vars(AnswerSome)

FairSpec == Spec /\ Fairness

(***************************************************************************)
(* crawl_domain under a user interrupt.  KeyboardInterrupt is raised out   *)
(* of loop.run_until_complete while the crawl runs; crawl_domain catches   *)
(* Exception only, so the interrupt leaves it and run_crawler returns 1.   *)
(* The coroutine of crawl_domain_async and the tasks are not resumed any   *)
(* more: the "async with" block of the session is never left.              *)
(***************************************************************************)
Interrupt ==
    /\ pc \in {"loop", "sleep", "drain"}
    /\ pc' = "interrupted"
    /\ UNCHANGED << config, outside, session, to_visit, in_progress, visited, tasks, result,
                    observed >>

NextOrInterrupt == Next \/ Interrupt

InterruptSpec == Init /\ [][NextOrInterrupt]_vars

(***************************************************************************)
(* The crawl with verbose on or off.  With verbose on the monitor task     *)
(* runs next to the scheduler and the tasks: it sleeps 5 seconds, ends     *)
(* when it finds in_progress empty, and logs the size and the first five   *)
(* URLs of in_progress otherwise.                                          *)
(***************************************************************************)
\* in_progress after the monitor has logged it: len(in_progress) and
\* list(in_progress)[:5] read the set.
print_active_tasks_drains(in_flight) == {}

print_active_tasks(in_flight) == in_flight

VerboseInit ==
    /\ \E crawl \in Crawls : url = crawl[1] /\ site = crawl[2]
    /\ max_concurrency \in 1..MaxConcurrency
    /\ link_callback = "returns"
    /\ page_callback = "returns"
    /\ verbose \in BOOLEAN
    /\ Constructed
    /\ NoCall

\* One turn of "while True" in _print_active_tasks_periodically: the sleep
\* ends while the scheduler and the tasks are suspended.
MonitorWake ==
    /\ scheduler_suspended
    /\ monitor_task.at = "sleep"
    /\ IF in_progress = {}
          THEN /\ monitor_task' = [monitor_task EXCEPT !.at = "done"]
               /\ UNCHANGED in_progress
          ELSE /\ monitor_task' = [monitor_task EXCEPT !.active = in_progress]
               /\ in_progress' = print_active_tasks(in_progress)
    /\ UNCHANGED << config, from_outside, pc, session, to_visit, visited, tasks, result,
                    observed >>

VerboseNext == Next \/ MonitorWake

VerboseSpec == VerboseInit /\ [][VerboseNext]_vars

(***************************************************************************)
(* The entry points of start_crawler.py: main and interactive_mode take    *)
(* the seed, validate it and call run_crawler, which builds the crawler,   *)
(* sets the page callback and calls crawl_domain.  The crawl may end by    *)
(* its return, by an Exception (the session cannot be opened, or the       *)
(* scheduler loop raises) or by the user's interrupt.                      *)
(***************************************************************************)
\* The authorities of the model that match the pattern of is_valid_url_format.
ValidAuthorities == {"example.com", "example.com:8080", "sub.example.com"}

\* The seeds given by the user: https://example.com, example.com,
\* https://[bad and https://
SeedInputs ==
    {Root,
     Str("", "", <<"example.com">>, ""),
     Str("https", BadNetloc, <<"">>, ""),
     Str("https", EmptyAuthority, <<"">>, "")}

EntryPoints == {"main", "interactive_mode"}

\* is_valid_url_format(url): http:// or https://, a domain with an optional
\* port, then nothing, "/", or "/" or "?" followed by non-blank characters.
is_valid_url_format(u) ==
    /\ u.scheme \in {"http", "https"}
    /\ u.netloc \in ValidAuthorities
    /\ u.path[1] = ""
    /\ (u.path = <<"">> /\ u.query = "") => u.fragment = ""

\* validate_url(url), for the outcome of the HEAD request of
\* check_url_accessibility: the error message, or "None" for a valid URL.
validate_url(u, accessible) ==
    IF ~is_valid_url_format(u) THEN "Invalid URL format"
    ELSE IF ~accessible THEN "URL is not accessible"
    ELSE "None"

\* run_crawler's return value for the way crawl_domain ended.  An Exception
\* of the crawl is caught inside crawl_domain (585-589), which logs it and
\* returns set(): run_crawler then goes on to "return 0" as after a crawl
\* that completed.  KeyboardInterrupt reaches run_crawler's handler.
run_crawler(ended) == IF ended = "interrupted" THEN 1 ELSE 0

EntryInit ==
    /\ url = EmptyStr
    /\ site = SiteBasic
    /\ max_concurrency \in 1..MaxConcurrency
    /\ link_callback = "None"
    /\ page_callback = "returns"
    /\ verbose = FALSE
    /\ Constructed
    /\ output_file = NoFile
    /\ call_args \in [entry : EntryPoints]
    /\ call_name = "input"
    /\ call_result = None

\* args.url of main, or the line read by interactive_mode
GetUrl ==
    /\ call_name = "input"
    /\ url' \in SeedInputs
    /\ call_name' = "validate_url"
    /\ UNCHANGED << site, max_concurrency, link_callback, page_callback, verbose, pc, session,
                    to_visit, in_progress, visited, tasks, result, observed,
                    call_args, call_result, monitor_task, output_file >>

\* is_valid, error_message = validate_url(url)
ValidateUrl ==
    /\ call_name = "validate_url"
    /\ \E accessible \in BOOLEAN :
       \E error_message \in {validate_url(url, accessible)} :
          IF error_message = "None"
             THEN call_name' = "run_crawler" /\ UNCHANGED call_result
             ELSE call_name' = "rejected" /\ call_result' = [error |-> error_message]
    /\ UNCHANGED << config, pc, session, to_visit, in_progress, visited, tasks, result,
                    observed, call_args, monitor_task, output_file >>

\* The message is printed: main returns 1, interactive_mode asks again.
Rejected ==
    /\ call_name = "rejected"
    /\ IF call_args.entry = "main"
          THEN call_name' = "exit" /\ call_result' = [code |-> 1]
          ELSE call_name' = "input" /\ UNCHANGED call_result
    /\ UNCHANGED << config, pc, session, to_visit, in_progress, visited, tasks, result,
                    observed, call_args, monitor_task, output_file >>

\* crawler.crawl_domain() runs the crawl.
Crawl == call_name = "run_crawler" /\ Next

\* Ctrl-C while the crawl runs.
CrawlInterrupt == call_name = "run_crawler" /\ Interrupt

\* aiohttp.ClientSession() raises before the loop, or the scheduler loop
\* raises an Exception, which leaves the "async with" block (the session is
\* closed) and crawl_domain_async; crawl_domain catches it: links = set().
CrawlRaises ==
    /\ call_name = "run_crawler"
    /\ pc \in {"init", "loop", "sleep", "drain"}
    /\ pc' = "failed"
    /\ session' = IF pc = "init" THEN "none" ELSE "closed"
    /\ result' = {}
    /\ UNCHANGED << config, outside, to_visit, in_progress, visited, tasks, observed >>

\* run_crawler returns and the entry point returns its value (in
\* interactive_mode the user does not ask for another crawl).
RunCrawlerReturn ==
    /\ call_name = "run_crawler"
    /\ pc \in {"done", "failed", "interrupted"}
    /\ call_name' = "exit"
    /\ call_result' = [code |-> run_crawler(pc)]
    /\ UNCHANGED << config, pc, session, to_visit, in_progress, visited, tasks, result,
                    observed, call_args, monitor_task, output_file >>

EntryNext ==
    \/ GetUrl
    \/ ValidateUrl
    \/ Rejected
    \/ Crawl
    \/ CrawlInterrupt
    \/ CrawlRaises
    \/ RunCrawlerReturn

EntrySpec == EntryInit /\ [][EntryNext]_vars

(***************************************************************************)
(* The concurrency the entry points hand to the crawler.  main takes it     *)
(* from --concurrency (argparse, type=int, default 10), interactive_mode    *)
(* from a line of input (int(line) if line.isdigit() else 10); both pass it *)
(* to run_crawler, which constructs AsyncWebCrawler(url,                    *)
(* max_concurrency=concurrency).  The crawl then runs under fair            *)
(* scheduling.                                                             *)
(***************************************************************************)
\* What the user gives: nothing, or the text of a number.
ConcurrencyInputs == {"", "-1", "0", "1", "2"}

\* The default of --concurrency and of interactive_mode.
DefaultConcurrency == 10

\* int(text)
int(text) ==
    CASE text = "-1" -> 0 - 1
      [] text = "0" -> 0
      [] text = "1" -> 1
      [] text = "2" -> 2

\* text.isdigit(): not empty and every character a digit.
isdigit(text) == text \in {"0", "1", "2"}

\* The concurrency the entry point passes to run_crawler.
parse_concurrency(entry, text) ==
    IF entry = "main"
        THEN IF text = "" THEN DefaultConcurrency ELSE int(text)
    ELSE IF isdigit(text) THEN int(text) ELSE DefaultConcurrency

ConcurrencyInit ==
    /\ url = Root
    /\ site \in {SiteBasic, SiteDiamond}
    /\ \E entry \in EntryPoints, text \in ConcurrencyInputs :
          /\ call_args = [entry |-> entry, concurrency |-> text]
          /\ max_concurrency = parse_concurrency(entry, text)
    /\ link_callback = "None"
    /\ page_callback = "returns"
    /\ verbose = FALSE
    /\ Constructed
    /\ output_file = NoFile
    /\ call_name = "run_crawler"
    /\ call_result = None

ConcurrencySpec == ConcurrencyInit /\ [][Next]_vars /\ Fairness

(***************************************************************************)
(* The URL functions called on their own, as the unit tests call them on a *)
(* crawler that was constructed and has not crawled: _normalize_url,       *)
(* is_same_domain and get_same_domain_links.  The arguments are drawn from *)
(* the strings below.                                                      *)
(***************************************************************************)
MaxMarkupLen == 2

Schemes == {"", "http", "https", "ftp", "mailto", "javascript", "tel"}

Netlocs == {"", "example.com", "other.com", "sub.example.com", "example.com:8080",
            BadNetloc}

Paths == { <<"">>, <<"", "">>, <<"", "page">>, <<"", "page", "">>, <<"", "Page">>,
           <<"page">>, <<"..", "x">>, <<".">> }

Queries == {"", "x=1"}

Fragments == {"", "section", "a#b"}

\* The strings: a string with a netloc has an empty path or one that begins
\* with "/".
RawUrls ==
    {u \in [scheme : Schemes, netloc : Netlocs, path : Paths, query : Queries,
            fragment : Fragments] :
        u.netloc # "" => u.path[1] = ""}

DirIndex == Str("https", "example.com", <<"", "dir", "index.html">>, "")

\* The base URLs; the empty string stands for a call without a base.
Bases == {EmptyStr, Root, DirIndex, StrQ("http", "example.com:8080", <<"", "a", "">>, "q=0", "")}

\* The seeds of the crawler the functions are called on.
Seeds == {Root, Str("http", "example.com:8080", <<"", "">>, "")}

\* The hrefs of the markup and the markup: up to MaxMarkupLen elements.
Hrefs == {Rel(<<"", "page">>), Str("", "", <<"page">>, "section"),
          Str("https", "other.com", <<"", "x">>, ""),
          Str("mailto", "", <<"a@b.com">>, ""),
          Str("http", BadNetloc, <<"", "x">>, "")}

Elements == {Anchor(h) : h \in Hrefs} \cup {BareAnchor, Text}

Markups == UNION {[1..n -> Elements] : n \in 1..MaxMarkupLen}

CallInit ==
    /\ url \in Seeds
    /\ site = SiteBasic
    /\ max_concurrency = 1
    /\ link_callback = "None"
    /\ page_callback = "None"
    /\ verbose = FALSE
    /\ Constructed
    /\ output_file = NoFile
    /\ call_name = "none"
    /\ call_result = None
    /\ \/ call_args \in [url : RawUrls, base_url : Bases]
       \/ call_args \in [html : Markups, base_url : Bases \ {EmptyStr}]

\* crawler._normalize_url(url, base_url)
CallNormalize ==
    /\ call_name = "none"
    /\ "url" \in DOMAIN call_args
    /\ call_name' = "_normalize_url"
    /\ call_result' = normalize_url(call_args.url, call_args.base_url)
    /\ UNCHANGED << config, pc, session, to_visit, in_progress, visited, tasks, result,
                    observed, call_args, monitor_task, output_file >>

\* crawler._normalize_url(r, base_url) for the URL r the first call returned
CallNormalizeAgain ==
    /\ call_name = "_normalize_url"
    /\ call_result \notin {None, ValueError}
    /\ call_name' = "_normalize_url again"
    /\ call_result' = normalize_url(call_result, call_args.base_url)
    /\ UNCHANGED << config, pc, session, to_visit, in_progress, visited, tasks, result,
                    observed, call_args, monitor_task, output_file >>

\* crawler.is_same_domain(url)
CallIsSameDomain ==
    /\ call_name = "none"
    /\ "url" \in DOMAIN call_args
    /\ call_name' = "is_same_domain"
    /\ call_result' = is_same_domain(call_args.url, url)
    /\ UNCHANGED << config, pc, session, to_visit, in_progress, visited, tasks, result,
                    observed, call_args, monitor_task, output_file >>

\* crawler.get_same_domain_links(html, base_url)
CallGetSameDomainLinks ==
    /\ call_name = "none"
    /\ "html" \in DOMAIN call_args
    /\ call_name' = "get_same_domain_links"
    /\ call_result' = get_same_domain_links(call_args.html, call_args.base_url, url)
    /\ UNCHANGED << config, pc, session, to_visit, in_progress, visited, tasks, result,
                    observed, call_args, monitor_task, output_file >>

CallNext ==
    \/ CallNormalize
    \/ CallNormalizeAgain
    \/ CallIsSameDomain
    \/ CallGetSameDomainLinks

CallSpec == CallInit /\ [][CallNext]_vars

(***************************************************************************)
(* get_same_domain_links called with any markup, the empty string          *)
(* included.  For "not html" the method fetches config.url itself with     *)
(* requests.get, outside the session and whatever the status of the        *)
(* answer, and extracts the links of what it received.                     *)
(***************************************************************************)
\* The "if not html" branch: html and base_url after requests.get(config.url);
\* a timeout or a transport error raises, and the method returns set().
fallback_fetch(seed, response) ==
    IF response.kind = "response"
        THEN [raised |-> FALSE, html |-> response.text, base_url |-> seed]
        ELSE [raised |-> TRUE, html |-> << >>, base_url |-> seed]

ExtractInit ==
    /\ url \in Seeds
    /\ site \in {SiteBasic, SiteEmptyBody}
    /\ max_concurrency = 1
    /\ link_callback = "None"
    /\ page_callback = "None"
    /\ verbose = FALSE
    /\ Constructed
    /\ output_file = NoFile
    /\ call_name = "none"
    /\ call_result = None
    /\ call_args \in [html : Markups \cup {<< >>}, base_url : Bases]

\* crawler.get_same_domain_links(html, base_url), the fallback included
GetSameDomainLinks ==
    /\ call_name = "none"
    /\ call_name' = "get_same_domain_links"
    /\ IF not_html(call_args.html)
          THEN \E response \in Responses(url) :
               \E fetched \in {fallback_fetch(url, response)} :
                  /\ requests' = requests (+) SetToBag({url})
                  /\ call_result' =
                        IF fetched.raised \/ fetched.html = << >> THEN {}
                        ELSE get_same_domain_links(fetched.html, fetched.base_url, url)
          ELSE /\ requests' = requests
               /\ call_result' =
                     get_same_domain_links(call_args.html, call_args.base_url, url)
    /\ UNCHANGED << config, pc, session, to_visit, in_progress, visited, tasks, result,
                    link_calls, page_calls, launched, absent, raced, events,
                    sleeps, sleeps_in_range, call_args, monitor_task, output_file >>

ExtractSpec == ExtractInit /\ [][GetSameDomainLinks]_vars

(***************************************************************************)
(* FileManager.append_link.  The content of a file is the sequence of what *)
(* was written to it: the strings, the line ends and the punctuation of    *)
(* its format.                                                             *)
(***************************************************************************)
MaxAppends == 3

Written(kind, text) == [kind |-> kind, text |-> text]

\* The column name "url" of the CSV header.
UrlHeader == Str("", "", <<"url">>, "")

\* The links appended: the last holds a comma, which csv.writer quotes.
FileLinks == {Root, Page("page"), Str("https", "example.com", <<"", "a,b">>, "")}

Extensions == {".txt", ".csv", ".json", ".log"}

\* open(output_path, mode): "a" keeps what the file holds, "w" truncates it.
text_mode_truncates == "w"

text_mode == "a"

opened(file, mode) ==
    [exists |-> TRUE, extension |-> file.extension,
     content |-> IF mode = "w" THEN << >> ELSE file.content]

\* f.write(link + "\n")
write_line(file, link) ==
    [file EXCEPT !.content = @ \o << Written("str", link), Written("\n", EmptyStr) >>]

\* csv.writer(f).writerow(row): the fields with commas between them and the
\* line end; a field that holds the delimiter is quoted.
RECURSIVE csv_fields(_)
csv_fields(row) ==
    LET text == Head(row)
        field == Written(IF text.path[Len(text.path)] = "a,b" THEN "quoted" ELSE "field",
                         text)
    IN  IF Len(row) = 1 THEN << field >>
        ELSE << field, Written(",", EmptyStr) >> \o csv_fields(Tail(row))

writerow(file, row) ==
    [file EXCEPT !.content = @ \o csv_fields(row) \o << Written("\r\n", EmptyStr) >>]

\* json.dump(data, f): the array with its brackets and commas.
RECURSIVE json_items(_)
json_items(data) ==
    IF data = << >> THEN << >>
    ELSE IF Len(data) = 1 THEN << Written("string", data[1]) >>
    ELSE << Written("string", data[1]), Written(",", EmptyStr) >> \o json_items(Tail(data))

json_dump(data) ==
    << Written("[", EmptyStr) >> \o json_items(data) \o << Written("]", EmptyStr) >>

\* The texts of what was written with one of the given kinds, in order.
texts(content, kinds) ==
    LET kept == SelectSeq(content, LAMBDA w : w.kind \in kinds)
    IN  [i \in DOMAIN kept |-> kept[i].text]

\* json.load(f) of a file that holds an array of strings
json_load(content) == texts(content, {"string"})

\* FileManager._append_json(link, output_path)
append_json(link, file) ==
    LET created == IF ~file.exists \/ file.content = << >>
                      THEN [opened(file, "w") EXCEPT !.content = json_dump(<< >>)]
                      ELSE file
        data == Append(json_load(created.content), link)
    IN  [created EXCEPT !.content = json_dump(data)]

\* FileManager._append_csv(link, output_path)
append_csv(link, file) ==
    LET file_exists == file.exists /\ file.content # << >>
        f == opened(file, "a")
    IN  writerow(IF file_exists THEN f ELSE writerow(f, << UrlHeader >>), << link >>)

\* output_path.endswith(suffix)
endswith_any(file, suffix) == TRUE

endswith(file, suffix) == file.extension = suffix

\* FileManager.append_link(link, output_path): the file after the call
append_link(link, file) ==
    IF endswith(file, ".json") THEN append_json(link, file)
    ELSE IF endswith(file, ".csv") THEN append_csv(link, file)
    ELSE write_line(opened(file, text_mode), link)

\* A key or a column name.
Key(name) == Str("", "", << name >>, "")

\* The column names of the CSV header of save_page_links.
PageHeader == << Key("source_page"), Key("found_link") >>

\* json.dump({"pages": data}, f): each page an object with its URL and the
\* array of its links.
json_page(page) ==
    << Written("{", EmptyStr), Written("key", Key("page_url")),
       Written("string", page.page_url), Written(",", EmptyStr),
       Written("key", Key("links")) >>
    \o json_dump(page.links) \o << Written("}", EmptyStr) >>

RECURSIVE json_pages(_)
json_pages(data) ==
    IF data = << >> THEN << >>
    ELSE IF Len(data) = 1 THEN json_page(data[1])
    ELSE json_page(data[1]) \o << Written(",", EmptyStr) >> \o json_pages(Tail(data))

json_dump_pages(data) ==
    << Written("{", EmptyStr), Written("key", Key("pages")), Written("[", EmptyStr) >>
    \o json_pages(data) \o << Written("]", EmptyStr), Written("}", EmptyStr) >>

\* json.load(f)["pages"] of a file written by json_dump_pages: a string after
\* the key page_url begins a page, a string after the key links is one of the
\* links of the last page.
RECURSIVE json_load_pages(_, _, _)
json_load_pages(content, key, data) ==
    IF content = << >> THEN data
    ELSE IF Head(content).kind = "key"
        THEN json_load_pages(Tail(content), Head(content).text, data)
    ELSE IF Head(content).kind = "string" /\ key = Key("page_url")
        THEN json_load_pages(Tail(content), key,
                             Append(data, [page_url |-> Head(content).text,
                                           links |-> << >>]))
    ELSE IF Head(content).kind = "string" /\ key = Key("links")
        THEN json_load_pages(Tail(content), key,
                             [data EXCEPT ![Len(data)].links =
                                  Append(@, Head(content).text)])
    ELSE json_load_pages(Tail(content), key, data)

\* "not os.path.exists(output_path) or os.path.getsize(output_path) == 0"
needs_structure_always(file) == TRUE

needs_structure(file) == ~file.exists \/ file.content = << >>

\* FileManager._append_page_json(page_url, links, output_path); links in the
\* order list(links) gives them.
append_page_json(page_url, links, file) ==
    LET created == IF needs_structure(file)
                      THEN [opened(file, "w") EXCEPT !.content = json_dump_pages(<< >>)]
                      ELSE file
        data == Append(json_load_pages(created.content, EmptyStr, << >>),
                       [page_url |-> page_url, links |-> links])
    IN  [created EXCEPT !.content = json_dump_pages(data)]

\* "for link in links: writer.writerow([page_url, link])"
RECURSIVE write_link_rows(_, _, _)
write_link_rows(file, page_url, links) ==
    IF links = << >> THEN file
    ELSE write_link_rows(writerow(file, << page_url, Head(links) >>), page_url,
                         Tail(links))

\* FileManager._append_page_csv(page_url, links, output_path)
append_page_csv(page_url, links, file) ==
    LET file_exists == file.exists
        f == opened(file, "a")
    IN  write_link_rows(IF file_exists THEN f ELSE writerow(f, PageHeader),
                        page_url, links)

\* "for link in links: f.write(f'  - {link}\n')"
RECURSIVE write_link_lines(_)
write_link_lines(links) ==
    IF links = << >> THEN << >>
    ELSE << Written("  - ", Head(links)), Written("\n", EmptyStr) >>
         \o write_link_lines(Tail(links))

\* FileManager.save_page_links(page_url, links, output_path): the file after
\* the call; links in the order the iteration over the set gives them.
save_page_links(page_url, links, file) ==
    IF endswith(file, ".json") THEN append_page_json(page_url, links, file)
    ELSE IF endswith(file, ".csv") THEN append_page_csv(page_url, links, file)
    ELSE [opened(file, "a") EXCEPT !.content =
             @ \o << Written("\nPage: ", page_url), Written("\n", EmptyStr),
                     Written("Links found:\n", EmptyStr) >>
               \o write_link_lines(links)
               \o << Written("----\n", EmptyStr) >>]

\* The output path names no file or an empty file; a JSON file may hold the
\* empty array.
FileInit ==
    /\ url = Root
    /\ site = SiteBasic
    /\ max_concurrency = 1
    /\ link_callback = "None"
    /\ page_callback = "None"
    /\ verbose = FALSE
    /\ Constructed
    /\ call_args = << >>
    /\ call_name = "none"
    /\ call_result = None
    /\ \E extension \in Extensions :
          output_file \in
              {[exists |-> FALSE, extension |-> extension, content |-> << >>],
               [exists |-> TRUE, extension |-> extension, content |-> << >>]}
              \cup (IF extension = ".json"
                       THEN {[exists |-> TRUE, extension |-> extension,
                              content |-> json_dump(<< >>)]}
                       ELSE {})

\* FileManager.append_link(link, output_path); call_args holds the links of
\* the calls made so far.
AppendLink(link) ==
    /\ Len(call_args) < MaxAppends
    /\ call_name' = "append_link"
    /\ call_args' = Append(call_args, link)
    /\ output_file' = append_link(link, output_file)
    /\ UNCHANGED << config, pc, session, to_visit, in_progress, visited, tasks, result,
                    observed, call_result, monitor_task >>

FileNext == \E link \in FileLinks : AppendLink(link)

FileSpec == FileInit /\ [][FileNext]_vars

(***************************************************************************)
(* FileManager.append_link and FileManager.save_page_links on one output   *)
(* path that names no file or an empty file.  A path is written by calls   *)
(* of one of the two functions.                                            *)
(***************************************************************************)
\* The pages saved and the links found on them.
SavedPages == {Root, Page("page")}

PageLinks == {Page("page"), Str("https", "example.com", <<"", "a,b">>, "")}

\* The orders in which the iteration over a set can give its elements.
Orders(S) ==
    {order \in [1..Cardinality(S) -> S] : {order[i] : i \in DOMAIN order} = S}

OutputInit ==
    /\ url = Root
    /\ site = SiteBasic
    /\ max_concurrency = 1
    /\ link_callback = "None"
    /\ page_callback = "None"
    /\ verbose = FALSE
    /\ Constructed
    /\ call_args = << >>
    /\ call_name = "none"
    /\ call_result = None
    /\ \E extension \in Extensions :
          output_file \in
              {[exists |-> FALSE, extension |-> extension, content |-> << >>],
               [exists |-> TRUE, extension |-> extension, content |-> << >>]}

\* FileManager.append_link(link, output_path) on a path written by
\* append_link only.
OutputAppendLink(link) ==
    /\ call_name \in {"none", "append_link"}
    /\ AppendLink(link)

\* FileManager.save_page_links(page_url, links, output_path); call_args holds
\* the page and the set of links of the calls made so far.
SavePageLinks(page_url, links) ==
    /\ call_name \in {"none", "save_page_links"}
    /\ Len(call_args) < MaxAppends
    /\ call_name' = "save_page_links"
    /\ call_args' = Append(call_args, [page_url |-> page_url, links |-> links])
    /\ \E order \in Orders(links) :
          output_file' = save_page_links(page_url, order, output_file)
    /\ UNCHANGED << config, pc, session, to_visit, in_progress, visited, tasks, result,
                    observed, call_result, monitor_task >>

OutputNext ==
    \/ \E link \in FileLinks : OutputAppendLink(link)
    \/ \E page_url \in SavedPages, links \in SUBSET PageLinks :
          SavePageLinks(page_url, links)

OutputSpec == OutputInit /\ [][OutputNext]_vars

(***************************************************************************)
(* Properties.                                                             *)
(***************************************************************************)
Known == to_visit \cup in_progress \cup visited

\* The URLs reachable from the seed by following the same-domain links of the pages.
RECURSIVE ReachableFrom(_)
ReachableFrom(S) ==
    LET next == S \cup UNION {links_of(u) : u \in S}
    IN  IF next = S THEN S ELSE ReachableFrom(next)

\* C1: in every reachable state the three frontier sets to_visit, in_progress
\* and visited are pairwise disjoint, so a URL found on two pages is in their
\* union once.
C1_FrontierDisjoint ==
    /\ to_visit \cap in_progress = {}
    /\ to_visit \cap visited = {}
    /\ in_progress \cap visited = {}

\* A link found on two pages whose tasks ran at the same time is in the frontier.
C1_Witness ==
    \E r \in raced :
        /\ r.link \in Known
        /\ r.by \in visited /\ r.other \in visited
        /\ r.link \in links_of(r.by) \cap links_of(r.other)

\* C2: check and insertion of a link are one step: in every step the link
\* callback is called for a URL at most once, a URL enters to_visit only when it
\* was in none of the three sets (and then the callback, when set, is called
\* for it), and the callback is called only for a URL that enters to_visit in
\* that step. The second task to find the link sees it present.
C2_AtomicAdmission ==
    [][\A l \in to_visit' \cup BagToSet(link_calls') :
          LET calls == CopiesIn(l, link_calls') - CopiesIn(l, link_calls)
              enters == l \in to_visit' /\ l \notin to_visit
          IN  /\ calls \in {0, 1}
              /\ (enters /\ pc # "init") =>
                    /\ l \notin Known
                    /\ link_callback # "None" => calls = 1
              /\ calls = 1 => enters /\ l \notin Known
      ]_vars

\* Two pages whose tasks ran at the same time both hold a link that was in
\* none of the sets; both tasks have ended with success and the callback was
\* called once for the link.
C2_Witness ==
    \E r \in raced :
        /\ link_callback # "None"
        /\ r.by \in visited /\ r.other \in visited
        /\ CopiesIn(r.other, absent) = 0
        /\ CopiesIn(r.link, link_calls) = 1

\* C3: with a positive limit, in_progress never holds more than
\* max_concurrency URLs.
C3_ConcurrencyBound ==
    max_concurrency > 0 => Cardinality(in_progress) <= max_concurrency

\* Limit 2 reached with three more URLs pending.
C3_Witness ==
    /\ max_concurrency = 2
    /\ Cardinality(in_progress) = 2
    /\ Cardinality(to_visit) = 3

\* C4: every URL that leaves in_progress (its task ends) is in visited
\* afterwards, whether its fetch gave content or not.
C4_EndedTaskIsVisited ==
    [][\A u \in in_progress : u \notin in_progress' => u \in visited']_vars

\* C5: once a URL has been admitted from to_visit into in_progress (a task
\* was created for it) it is never added to to_visit again.
C5_NoReadmission ==
    [][\A u \in BagToSet(launched) : u \in to_visit' => u \in to_visit]_vars

\* C6: a URL whose attempts all fail is attempted retry_ceiling + 1 times and is
\* then reported absent; whatever the ceiling, once a URL has been reported
\* absent no further request is made for it.
C6_NoAttemptAfterAbsent ==
    [][\A u \in BagToSet(absent) : CopiesIn(u, requests') = CopiesIn(u, requests)]_vars

\* C7: a URL in visited stays in visited and is never again in to_visit or
\* in_progress.
C7_VisitedIsTerminal ==
    [][\A u \in visited :
          u \in visited' /\ u \notin to_visit' /\ u \notin in_progress']_vars

\* The seed is visited, and so is another page that links to the seed (that
\* page was found, and so processed, after the seed was visited).
C7_Witness ==
    /\ url \in visited
    /\ \E v \in visited : v # url /\ url \in links_of(v)

\* C8: with a positive limit and fair scheduling the crawl ends: eventually
\* crawl_domain_async has returned, with to_visit and in_progress empty.
C8_Terminates ==
    max_concurrency > 0 => <>(pc = "done" /\ to_visit = {} /\ in_progress = {})

\* A crawl with successes and failures has returned.
C8_Witness ==
    /\ max_concurrency > 0
    /\ pc = "done"
    /\ visited # {}
    /\ absent # EmptyBag

\* C9: crawl_domain_async returns only with to_visit and in_progress empty
\* and no task running, it returns the visited set, nothing changes visited
\* after the return, and when the loop condition is evaluated with both sets
\* empty the loop is left.
C9_Completion ==
    [][/\ pc' = "done" =>
            /\ to_visit' = {} /\ in_progress' = {}
            /\ tasks' = EmptyBag
            /\ result' = visited'
       /\ pc = "done" => visited' = visited /\ result' = result
       /\ (pc = "loop" /\ to_visit = {} /\ in_progress = {}) => pc' = "drain"
       /\ (pc = "loop" /\ (to_visit # {} \/ in_progress # {})) => pc' \in {"loop", "sleep"}
      ]_vars

\* The crawl has returned a visited set of several pages.
C9_Witness ==
    /\ pc = "done"
    /\ result = visited
    /\ Cardinality(result) >= 3

\* C10: when the crawl has returned and no fetch came back without content,
\* the returned set is the set of URLs reachable from the seed over the
\* same-domain links of the pages; for the seed page with two same-domain
\* links, a cross-domain link, a mailto link and a bare fragment it is the
\* seed and the two same-domain pages.
C10_VisitedIsReachable ==
    (pc = "done" /\ absent = EmptyBag) =>
        /\ result = ReachableFrom({url})
        /\ site = SiteBasic => result = {Root, Page("page1"), Page("page2")}

\* The crawl of that seed page has returned without a failed fetch.
C10_Witness ==
    /\ pc = "done"
    /\ absent = EmptyBag
    /\ site = SiteBasic
    /\ Cardinality(result) = 3

\* A normalized URL: absolute, scheme http or https, no fragment.
IsNormalized(u) ==
    /\ u.scheme \in {"http", "https"}
    /\ u.netloc # ""
    /\ u.fragment = ""

\* C12: every URL in to_visit, in_progress or visited, the seed included, is
\* normalized and has the authority of the seed.
C12_FrontierNormalized ==
    \A u \in Known : IsNormalized(u) /\ u.netloc = url.netloc

\* C13: with a link callback or a page callback that raises, every
\* process_page that had HTML content still puts all links of the page in the
\* frontier and moves the URL of the page to visited, and a crawl that has
\* returned without a failed fetch has returned the set of URLs reachable from
\* the seed, the set it returns with callbacks that do not raise.
C13_RaisingCallbackKeepsCrawl ==
    [][(link_callback = "raises" \/ page_callback = "raises") =>
          /\ \A t \in BagToSet(tasks) :
                (/\ t.at = "request"
                 /\ CopiesIn(t, tasks') < CopiesIn(t, tasks)
                 /\ absent' = absent) =>
                    /\ t.url \in visited' /\ t.url \notin in_progress'
                    /\ links_of(t.url) \subseteq to_visit' \cup in_progress' \cup visited'
          /\ (pc' = "done" /\ absent' = EmptyBag) => result' = ReachableFrom({url})
      ]_vars

\* Both callbacks raise, both were called, and the crawl has returned three
\* pages or more.
C13_Witness ==
    /\ link_callback = "raises"
    /\ page_callback = "raises"
    /\ link_calls # EmptyBag
    /\ page_calls # EmptyBag
    /\ pc = "done"
    /\ absent = EmptyBag
    /\ Cardinality(result) >= 3

\* C14: with a page callback set, the callback has been called exactly once
\* for every page process_page had HTML content for (the visited URLs), with
\* the URL of the page and all same-domain links of the page, known or not,
\* and for nothing else; with the slot empty it is never called.
C14_PageCallbackOncePerPage ==
    /\ page_callback = "None" => page_calls = EmptyBag
    /\ page_callback # "None" =>
          /\ BagToSet(page_calls) = {[url |-> u, links |-> links_of(u)] : u \in visited}
          /\ \A call \in BagToSet(page_calls) : CopiesIn(call, page_calls) = 1

\* The callback was called for a page other than the seed with a set of links
\* that holds the seed, which was known then.
C14_Witness ==
    /\ page_callback # "None"
    /\ pc = "done"
    /\ \E call \in BagToSet(page_calls) :
          /\ call.url # url
          /\ url \in call.links
          /\ Cardinality(call.links) >= 2

\* C15: in the processing of one page, every link is added to to_visit (and
\* the link callback called for it) before the page callback is called, and
\* the page callback is called before the URL moves to visited.
C15_LinksBeforePageCallback ==
    \A i \in DOMAIN events : \A j \in DOMAIN events :
        /\ (events[i] \in {"to_visit.add", "link_callback"} /\ events[j] = "page_callback")
              => i < j
        /\ (events[i] = "page_callback" /\ events[j] = "visited.add") => i < j

\* C16: with a link callback set, in every step after the seed is placed the
\* callback is called once for each URL the step adds to to_visit and for no
\* other URL; it is not called for a URL that was in to_visit, in_progress or
\* visited.
C16_LinkCallbackPerInsertion ==
    [][(pc # "init" /\ link_callback # "None") =>
          /\ link_calls' = link_calls (+) SetToBag(to_visit' \ to_visit)
          /\ \A l \in Known : CopiesIn(l, link_calls') = CopiesIn(l, link_calls)
      ]_vars

\* A visited page other than the seed links to the seed and to itself or to
\* another page: the callback was called once for a link of the page and never
\* for the seed.
C16_Witness ==
    /\ link_callback # "None"
    /\ CopiesIn(url, link_calls) = 0
    /\ \E v \in visited :
          /\ v # url
          /\ url \in links_of(v)
          /\ CopiesIn(v, link_calls) = 1

\* C17: every call of session.get is preceded in its task by exactly one
\* asyncio.sleep, whose delay is in [delay_min, delay_max]: for every URL the
\* sleeps are the requests plus the tasks that sleep now, and no delay slept
\* was out of the range.
C17_SleepBeforeRequest ==
    /\ sleeps_in_range
    /\ \A u \in BagToSet(launched) :
          CopiesIn(u, sleeps) =
              CopiesIn(u, requests)
                  + Cardinality({t \in BagToSet(tasks) : t.url = u /\ t.at = "delay"})

\* A URL was requested twice (it failed and was found again), each time after
\* a sleep.
C17_Witness ==
    \E u \in BagToSet(requests) :
        /\ CopiesIn(u, requests) = 2
        /\ CopiesIn(u, sleeps) = 2

\* C18: for every request that is out and every answer it may get, the fetch
\* returns a pair whose first component is the URL of the task, unchanged, and
\* whose second is the text of the response when the status is 200 and None
\* for any other status, a timeout or a transport error.
C18_FetchReturnsContentOrNone ==
    \A t \in BagToSet(tasks) :
        t.at = "request" =>
            \A response \in Responses(t.url) :
                LET fetched == fetch_page_async(t.url, response)
                IN  /\ Len(fetched) = 2
                    /\ fetched[1] = t.url
                    /\ fetched[2] =
                          IF response.kind = "response" /\ response.status = 200
                             THEN response.text
                             ELSE NoneHtml

\* The request of a page other than the seed is out; the server may answer
\* 200 with the page, 500, or not at all.
C18_Witness ==
    \E t \in BagToSet(tasks) :
        /\ t.at = "request"
        /\ t.url # url
        /\ \E response \in Responses(t.url) :
              /\ response.status = 200
              /\ fetch_page_async(t.url, response) = << t.url, site[t.url] >>
        /\ \E response \in Responses(t.url) :
              /\ response.status = 500
              /\ fetch_page_async(t.url, response) = << t.url, NoneHtml >>
        /\ \E response \in Responses(t.url) :
              /\ response.kind = "timeout"
              /\ fetch_page_async(t.url, response) = << t.url, NoneHtml >>

\* C19: the session is open when the first URL is admitted and whenever
\* in_progress is not empty; it is closed only in a step that starts with
\* to_visit and in_progress empty, and once it is closed both sets stay empty,
\* no task is left and no request or admission is made.
C19_SessionCoversCrawl ==
    /\ [](in_progress # {} => session = "open")
    /\ [](session = "closed" => to_visit = {} /\ in_progress = {} /\ tasks = EmptyBag)
    /\ [][/\ launched' # launched => session = "open" /\ session' = "open"
          /\ requests' # requests => session = "open" /\ session' = "open"
          /\ (session # "closed" /\ session' = "closed") =>
                to_visit = {} /\ in_progress = {} /\ session = "open"
          /\ session = "closed" =>
                session' = "closed" /\ requests' = requests /\ launched' = launched
         ]_vars

\* A crawl of several pages has returned and the session is closed.
C19_Witness ==
    /\ pc = "done"
    /\ session = "closed"
    /\ Cardinality(result) >= 3
    /\ \A u \in result : CopiesIn(u, requests) >= 1

\* C20: when the crawl has been stopped by an interrupt after tasks were
\* created, the tasks have finished (none is left, in_progress is empty) and
\* the session is closed.
C20_InterruptClosesSession ==
    (pc = "interrupted" /\ launched # EmptyBag) =>
        /\ session = "closed"
        /\ tasks = EmptyBag
        /\ in_progress = {}

\* The URLs reachable from S over the links of the pages whose fetch does not
\* fail.
RECURSIVE ReachableAvoiding(_, _)
ReachableAvoiding(S, failed) ==
    LET next == S \cup UNION {links_of(u) : u \in S \ failed}
    IN  IF next = S THEN S ELSE ReachableAvoiding(next, failed)

\* C11: the returned set is a function of the link graph and of the fetch
\* outcome of each URL alone, whatever the order of the pops and of the
\* tasks: when each URL had one outcome in all its fetches (none both failed
\* and succeeded), the crawl returns the URLs reachable from the seed over the
\* pages that did not fail, less the URLs that failed.
C11_VisitedIsOrderIndependent ==
    (pc = "done" /\ BagToSet(absent) \cap visited = {}) =>
        result = ReachableAvoiding({url}, BagToSet(absent)) \ BagToSet(absent)

\* A crawl in which two tasks ran at the same time and found the same link,
\* and in which a URL failed, has returned two pages or more.
C11_Witness ==
    /\ pc = "done"
    /\ raced # {}
    /\ absent # EmptyBag
    /\ BagToSet(absent) \cap visited = {}
    /\ Cardinality(result) >= 2

\* C23: normalization is idempotent: when _normalize_url(u, b) returned a
\* URL r, _normalize_url(r, b) returns r.
C23_NormalizeIdempotent ==
    [][(call_name = "_normalize_url" /\ call_name' = "_normalize_url again")
           => call_result' = call_result]_vars

\* The second call has been made on the result of a call that resolved a
\* relative reference with a query and a fragment against a base.
C23_Witness ==
    /\ call_name = "_normalize_url again"
    /\ call_args.url.scheme = ""
    /\ call_args.url.query # ""
    /\ call_args.url.fragment = "a#b"
    /\ call_args.base_url = DirIndex
    /\ call_result \notin {None, ValueError}

\* C24: for every input, _normalize_url returns None or a URL that begins
\* with http:// or https:// and has no fragment; the empty string and the
\* strings that begin with mailto:, javascript:, tel: or # give None, with or
\* without a base.
C24_NormalizeReturnsNoneOrUrl ==
    call_name = "_normalize_url" =>
        /\ \/ call_result = None
           \/ /\ call_result.scheme \in {"http", "https"}
              /\ call_result.netloc # ""
              /\ call_result.fragment = ""
        /\ (call_args.url = EmptyStr \/ startswith_special(call_args.url))
               => call_result = None

C26_SameDomainIffSameAuthority ==
    call_name = "is_same_domain" =>
        LET u == call_args.url
            n == normalize_url(u, url)
        IN  /\ call_result = "True"
                   <=> (n \notin {None, ValueError} /\ n.netloc = url.netloc)
            /\ (u.scheme \in {"http", "https"} /\ u.netloc = url.netloc)
                   => call_result = "True"
            /\ (u.netloc \notin {"", url.netloc}) => call_result # "True"
            /\ (u = EmptyStr \/ n = None) => call_result = "False"

\* A URL with the seed's authority and another scheme has been found
\* same-domain.
C26_Witness ==
    /\ call_name = "is_same_domain"
    /\ url.scheme = "https"
    /\ call_args.url.scheme = "http"
    /\ call_args.url.netloc = url.netloc
    /\ call_args.url.fragment # ""
    /\ call_result = "True"

\* C27: get_same_domain_links returns exactly the normalized forms of the
\* anchor hrefs that normalize to a valid URL and pass the domain filter:
\* an href that does not normalize or is of another domain is dropped and
\* takes no other link of the page with it.
C27_LinksAreTheSameDomainHrefs ==
    call_name = "get_same_domain_links" =>
        call_result =
            LET normalized == {normalize_url(e.href, call_args.base_url) :
                                  e \in {call_args.html[i] : i \in DOMAIN call_args.html}
                                            \cap {Anchor(h) : h \in Hrefs}}
            IN  {n \in normalized \ {None, ValueError} : is_same_domain(n, url) = "True"}

\* C21: a failure local to one URL does not escalate.  With a positive
\* limit and fair scheduling, whatever fetches fail and whatever the
\* callbacks raise, the crawl comes to rest returned: in_progress is empty
\* from then on, so every URL that entered it has left it; no URL is left
\* pending and no task unfinished; every URL that was admitted ended
\* visited or failed; and the visited set has been returned.
C21_LocalFailureDoesNotEscalate ==
    max_concurrency > 0 =>
        <>[](/\ in_progress = {}
             /\ to_visit = {}
             /\ tasks = EmptyBag
             /\ \A u \in BagToSet(launched) : u \in visited \/ u \in BagToSet(absent)
             /\ pc = "done" /\ result = visited)

\* A crawl with a raising page callback has returned after a fetch failed
\* and other pages were visited.
C21_Witness ==
    /\ pc = "done"
    /\ page_callback = "raises"
    /\ absent # EmptyBag
    /\ Cardinality(result) >= 2
    /\ in_progress = {}

\* C22: a fatal startup failure is surfaced as a crawl-level failure:
\* run_crawler returns non-zero when the session could not be opened or the
\* scheduler loop raised, as it does for an interrupt, and returns zero only
\* for a crawl that completed.
C22_FailureReturnsNonZero ==
    (call_name = "exit" /\ pc # "init") =>
        /\ pc \in {"failed", "interrupted"} => call_result.code # 0
        /\ call_result.code = 0 => pc = "done"

\* C29: a seed without a scheme gets a scheme prepended and is crawled: it
\* is not rejected for its format and the crawl runs on an http or https
\* URL; a seed with a malformed authority is rejected before the crawl
\* starts: no URL is admitted and no task is created for it.
C29_SeedSchemePrependedBadAuthorityRejected ==
    /\ (call_name = "rejected" /\ url.scheme = "" /\ url.path[1] \in ValidAuthorities)
           => call_result.error # "Invalid URL format"
    /\ pc # "init" => url.scheme \in {"http", "https"}
    /\ (url.netloc \in {BadNetloc, EmptyAuthority})
           => /\ call_name \notin {"run_crawler", "exit"} \/ call_result.code = 1
              /\ pc = "init"
              /\ in_progress = {}
              /\ tasks = EmptyBag
              /\ launched = EmptyBag

\* The variables of the crawl: all but the monitor task.
crawl_vars ==
    << config, from_outside, pc, session, to_visit, in_progress, visited, tasks, result,
       observed >>

\* A step of the crawl as it is without verbose: the steps of the scheduler
\* and of the tasks on the variables of the crawl.
NonVerboseStep ==
    \/ CrawlStartFrontier
    \/ \E u \in to_visit : Admit(u)
    \/ Idle
    \/ Wake
    \/ LoopExit
    \/ ReturnFrontier
    \/ \E t \in BagToSet(tasks) : Sleep(t)
    \/ \E t \in BagToSet(tasks) : Request(t)
    \/ \E t \in BagToSet(tasks) : \E response \in Responses(t.url) : ProcessPage(t, response)

\* C28: verbose has no effect on the crawl.  Every step of a crawl with
\* verbose on or off is, on the frontier sets, the tasks, the recorded
\* callbacks and requests and the returned set, a step the crawl without
\* verbose takes, or leaves them all unchanged: the monitor task changes
\* no frontier set; and a crawl that returned has returned the set that
\* depends on the site and the fetch outcomes alone.
C28_VerboseHasNoEffect ==
    /\ [][NonVerboseStep \/ UNCHANGED crawl_vars]_vars
    /\ [](pc = "done" /\ BagToSet(absent) \cap visited = {}
             => result = ReachableAvoiding({url}, BagToSet(absent)) \ BagToSet(absent))

\* With verbose on, the monitor task has logged two URLs in in_progress and
\* the crawl has returned after it was cancelled.
C28_Witness ==
    /\ verbose
    /\ pc = "done"
    /\ monitor_task.at = "cancelled"
    /\ Cardinality(monitor_task.active) = 2
    /\ Cardinality(result) >= 2

\* The entries read back from the file: the lines of a text file, the rows
\* of a CSV file after its header, the items of the JSON array.
entries(file) ==
    IF file.extension = ".json" THEN texts(file.content, {"string"})
    ELSE IF file.extension = ".csv"
        THEN LET rows == texts(file.content, {"field", "quoted"})
             IN  IF rows = << >> THEN << >> ELSE Tail(rows)
    ELSE texts(file.content, {"str"})

\* C30: after any sequence of append_link calls on one output path the file
\* holds exactly the appended links in call order: each call leaves the
\* earlier entries as they were and adds its link as the last entry.
C30_AppendKeepsOrder ==
    /\ [](call_name = "append_link" => entries(output_file) = call_args)
    /\ [][call_name' = "append_link"
             => entries(output_file') =
                    Append(entries(output_file), call_args'[Len(call_args')])]_vars

\* Three links, the first of them twice, were appended to a CSV file that
\* did not exist.
C30_Witness ==
    /\ call_name = "append_link"
    /\ output_file.extension = ".csv"
    /\ Len(call_args) = 3
    /\ call_args[1] = call_args[3]
    /\ call_args[1] # call_args[2]
    /\ Len(output_file.content) = 8

\* The rows read back from a CSV file: the fields up to each line end.
RECURSIVE csv_rows(_, _, _)
csv_rows(content, row, rows) ==
    IF content = << >> THEN rows
    ELSE IF Head(content).kind = "\r\n"
        THEN csv_rows(Tail(content), << >>, Append(rows, row))
    ELSE IF Head(content).kind \in {"field", "quoted"}
        THEN csv_rows(Tail(content), Append(row, Head(content).text), rows)
    ELSE csv_rows(Tail(content), row, rows)

\* C31: a CSV output file that was missing or empty before the first call
\* begins with the header row of the function that writes it (url for
\* append_link, source_page and found_link for save_page_links), and no later
\* row is the header again.
C31_OneHeaderRow ==
    (call_name # "none" /\ output_file.extension = ".csv") =>
        LET rows == csv_rows(output_file.content, << >>, << >>)
            header == IF call_name = "append_link" THEN << UrlHeader >> ELSE PageHeader
        IN  /\ rows # << >>
            /\ rows[1] = header
            /\ \A i \in 2..Len(rows) : rows[i] # header

\* What a reader of each format accepts: a JSON document begins with a
\* bracket or a brace and holds keys, strings and punctuation; a CSV file
\* holds fields, delimiters and line ends; a text file holds lines.
is_format(content, format) ==
    IF format = "json"
        THEN /\ content # << >>
             /\ content[1].kind \in {"[", "{"}
             /\ \A i \in DOMAIN content :
                    content[i].kind \in {"[", "]", "{", "}", "key", "string", ","}
    ELSE IF format = "csv"
        THEN \A i \in DOMAIN content : content[i].kind \in {"field", "quoted", ",", "\r\n"}
    ELSE \A i \in DOMAIN content :
             content[i].kind \in {"str", "\n", "\nPage: ", "Links found:\n", "  - ", "----\n"}

\* C32: after any call of append_link or save_page_links the file is in the
\* format its extension selects: JSON for .json, CSV for .csv, lines of text
\* for every other extension, .log as much as .txt.
C32_FormatByExtension ==
    call_name \in {"append_link", "save_page_links"} =>
        is_format(output_file.content,
                  IF output_file.extension = ".json" THEN "json"
                  ELSE IF output_file.extension = ".csv" THEN "csv"
                  ELSE "text")

\* A page with two links was saved to a .log file, which holds a block of
\* text lines.
C32_Witness ==
    /\ call_name = "save_page_links"
    /\ output_file.extension = ".log"
    /\ Cardinality(call_args[1].links) = 2
    /\ Len(output_file.content) = 8
    /\ output_file.content[1].kind = "\nPage: "

\* The pages read back from a file written by save_page_links, each with the
\* links recorded for it: the entries of the JSON pages list, the data rows
\* of a CSV file grouped by call as runs of their lengths, the blocks of a
\* text file.
RECURSIVE text_blocks(_, _)
text_blocks(content, data) ==
    IF content = << >> THEN data
    ELSE IF Head(content).kind = "\nPage: "
        THEN text_blocks(Tail(content),
                         Append(data, [page_url |-> Head(content).text, links |-> << >>]))
    ELSE IF Head(content).kind = "  - "
        THEN text_blocks(Tail(content),
                         [data EXCEPT ![Len(data)].links = Append(@, Head(content).text)])
    ELSE text_blocks(Tail(content), data)

data_rows(file) ==
    SelectSeq(csv_rows(file.content, << >>, << >>), LAMBDA row : row # PageHeader)

\* The records of a file: for JSON and text one per page with its links in
\* written order, for CSV one per data row.
records(file) ==
    IF file.extension = ".json" THEN json_load_pages(file.content, EmptyStr, << >>)
    ELSE IF file.extension = ".csv" THEN data_rows(file)
    ELSE text_blocks(file.content, << >>)

\* The record or rows one call adds hold the page and exactly its links.
is_record_of(added, file, saved) ==
    IF file.extension = ".csv"
        THEN /\ Len(added) = Cardinality(saved.links)
             /\ \A i \in DOMAIN added : Len(added[i]) = 2 /\ added[i][1] = saved.page_url
             /\ {added[i][2] : i \in DOMAIN added} = saved.links
    ELSE /\ Len(added) = 1
         /\ added[1].page_url = saved.page_url
         /\ Len(added[1].links) = Cardinality(saved.links)
         /\ {added[1].links[i] : i \in DOMAIN added[1].links} = saved.links

\* C33: each save_page_links call leaves the records the file held as they
\* were and adds, after them, the record of its page: one entry of the JSON
\* pages list, one CSV row per link of the page, one Page block of text; so
\* the file holds one record per call in call order.
C33_OneRecordPerCall ==
    /\ [](call_name = "save_page_links" /\ output_file.extension # ".csv"
             => Len(records(output_file)) = Len(call_args))
    /\ [][call_name' = "save_page_links" =>
            /\ Len(records(output_file')) >= Len(records(output_file))
            /\ SubSeq(records(output_file'), 1, Len(records(output_file)))
                   = records(output_file)
            /\ is_record_of(SubSeq(records(output_file'),
                                   Len(records(output_file)) + 1,
                                   Len(records(output_file'))),
                            output_file, call_args'[Len(call_args')])]_vars

\* Three pages were saved to a JSON file that did not exist, the first and
\* the third the same page with two links, the second with one link.
C33_Witness ==
    /\ call_name = "save_page_links"
    /\ output_file.extension = ".json"
    /\ Len(call_args) = 3
    /\ call_args[1] = call_args[3]
    /\ Cardinality(call_args[1].links) = 2
    /\ Cardinality(call_args[2].links) = 1
    /\ Len(records(output_file)) = 3

\* C34: a scheduler iteration that finds a pending URL and fewer than
\* max_concurrency URLs in progress admits one URL in that very step, no task
\* taking a step or ending in between: in_progress grows by the URL taken
\* from to_visit and tasks by its task only.  The scheduler goes to sleep
\* only when in_progress is at the limit or to_visit is empty, so with more
\* pending URLs than the limit in_progress is at the limit when it sleeps.
C34_WorkConserving ==
    [][/\ (pc = "loop" /\ to_visit # {} /\ Cardinality(in_progress) < max_concurrency)
            => \E u \in to_visit :
                  /\ to_visit' = to_visit \ {u}
                  /\ in_progress' = in_progress \cup {u}
                  /\ tasks' = tasks (+) SetToBag({[url |-> u, at |-> "start"]})
                  /\ pc' = "loop"
       /\ (pc = "loop" /\ pc' = "sleep")
            => to_visit = {} \/ Cardinality(in_progress) >= max_concurrency
      ]_vars

\* The scheduler sleeps with two URLs in progress at limit 2, both admitted
\* one after the other while the task of neither has taken a step, and more
\* URLs pending.
C34_Witness ==
    /\ pc = "sleep"
    /\ max_concurrency = 2
    /\ Cardinality(in_progress) = 2
    /\ to_visit # {}
    /\ \A t \in BagToSet(tasks) : t.at = "start"
    /\ BagCardinality(tasks) = 2

\* C35: a task whose request is answered with status 200 ends with success
\* whatever the body, the empty body included: the links of the body are
\* extracted and handed to the page callback, when one is set, and the URL
\* moves from in_progress to visited.
C35_Status200IsSuccess ==
    [][\A t \in BagToSet(tasks) : \A response \in Responses(t.url) :
          (response.status = 200 /\ ProcessPage(t, response)) =>
              /\ t.url \in in_progress
              /\ t.url \notin in_progress'
              /\ t.url \in visited'
              /\ page_callback # "None" =>
                    \E links \in {IF response.text = << >> THEN {}
                                  ELSE get_same_domain_links(response.text, t.url, url)} :
                        CopiesIn([url |-> t.url, links |-> links], page_calls')
                            = CopiesIn([url |-> t.url, links |-> links], page_calls) + 1
      ]_vars

\* C36: in every reachable state the URLs of the running process_page tasks
\* are exactly the URLs in in_progress and no URL has two tasks: the number
\* of tasks is the number of URLs in in_progress.
C36_OneTaskPerUrlInProgress ==
    /\ {t.url : t \in BagToSet(tasks)} = in_progress
    /\ BagCardinality(tasks) = Cardinality(in_progress)
    /\ \A t \in BagToSet(tasks) : CopiesIn(t, tasks) = 1

\* Two tasks run at limit 2; one of them is the second task of a URL whose
\* first task ended with a failed fetch.
C36_Witness ==
    /\ max_concurrency = 2
    /\ BagCardinality(tasks) = 2
    /\ \E t \in BagToSet(tasks) :
          /\ CopiesIn(t.url, launched) = 2
          /\ CopiesIn(t.url, absent) = 1
          /\ t.at = "request"

\* C37: over a whole crawl the link callback is called at most once for each
\* URL, whatever the answers to the requests and however many pages link to
\* the URL.
C37_LinkCallbackOncePerUrl ==
    \A l \in BagToSet(link_calls) : CopiesIn(l, link_calls) = 1

\* C38: whatever concurrency the entry point passed to the crawler, zero and
\* negative values included, under fair scheduling the seed is admitted and
\* crawl_domain_async returns: the scheduler does not sleep for ever with the
\* seed pending and nothing in progress.
C38_TerminatesForEveryConcurrency ==
    <>(pc = "done" /\ CopiesIn(url, launched) > 0 /\ to_visit = {} /\ in_progress = {})

\* C39: a call of get_same_domain_links makes no request and leaves the
\* crawl state as it was, whatever the markup, and for the empty markup it
\* returns the empty set.
C39_ExtractionIsPure ==
    [][call_name' = "get_same_domain_links" =>
          /\ requests' = requests
          /\ UNCHANGED << to_visit, in_progress, visited, session >>
          /\ call_args.html = << >> => call_result' = {}
      ]_vars

=============================================================================
